---- MODULE Spec2Model ----
(***************************************************************************)
(* Model of the summary endpoint of the museum comment summarizer:         *)
(*   app/api/routes.py            summarize                                *)
(*   app/services/supabase_client.py   store reads and the summary write   *)
(*   app/services/ai_service.py   weak-signal test, prompts, generation    *)
(*                                                                         *)
(* Strings are sequences of one-character strings; the atom "NL" stands    *)
(* for the newline character.  The fixed Indonesian texts of the prompts   *)
(* are single atoms of a prompt sequence.  An Optional value is a          *)
(* sequence of length 0 (None) or 1 (the value).                           *)
(***************************************************************************)
EXTENDS Integers, Sequences, FiniteSets, TLC

\* ---------------------------------------------------------------- bounds
\* Latest instant the clock reaches.
MaxClock == 3
\* Comments inserted while the model runs (the initial table comes on top).
MaxInserts == 1

\* ---------------------------------------------------- program constants
\* routes.py:46 and :52, "comment_count < 3", "len(comments) < 3"
MIN_COMMENTS == 3
\* routes.py:51 and :79, limit=50
LIMIT == 50
\* ai_service.py:24, avg_length < 15
MIN_AVG_LENGTH == 15
\* ai_service.py:45 and :111, explanation[:200]
MAX_EXPLANATION == 200

\* -------------------------------------------------------------- Optional
None == <<>>
Some(x) == <<x>>
IsNone(o) == o = <<>>
Val(o) == o[1]

\* --------------------------------------------------------------- strings
Rep(c, n) == [i \in 1..n |-> c]

\* str.strip() / str.split() treat blanks and newlines as whitespace.
IsSpace(c) == c \in {" ", "NL"}

RECURSIVE lstrip(_)
lstrip(s) ==
    IF s = <<>> THEN <<>>
    ELSE IF IsSpace(Head(s)) THEN lstrip(Tail(s)) ELSE s

RECURSIVE rstrip(_)
rstrip(s) ==
    IF s = <<>> THEN <<>>
    ELSE IF IsSpace(s[Len(s)]) THEN rstrip(SubSeq(s, 1, Len(s) - 1)) ELSE s

\* str.strip()
strip(s) == rstrip(lstrip(s))

\* Length of the first whitespace-free run of s (s starts with a non-space).
RECURSIVE WordLen(_)
WordLen(s) ==
    IF s = <<>> THEN 0
    ELSE IF IsSpace(Head(s)) THEN 0 ELSE 1 + WordLen(Tail(s))

\* str.split(): the whitespace-separated tokens.
RECURSIVE split(_)
split(s) ==
    LET t == lstrip(s) IN
    IF t = <<>> THEN <<>>
    ELSE LET k == WordLen(t) IN
         <<SubSeq(t, 1, k)>> \o split(SubSeq(t, k + 1, Len(t)))

\* "\n".join(xs)
RECURSIVE join(_)
join(xs) ==
    IF xs = <<>> THEN <<>>
    ELSE IF Len(xs) = 1 THEN xs[1]
    ELSE xs[1] \o <<"NL">> \o join(Tail(xs))

\* [x for x in xs if x]  (the truthy, i.e. non-empty, strings)
RECURSIVE Truthy(_)
Truthy(xs) ==
    IF xs = <<>> THEN <<>>
    ELSE IF Head(xs) # <<>> THEN <<Head(xs)>> \o Truthy(Tail(xs))
    ELSE Truthy(Tail(xs))

Reverse(xs) == [i \in 1..Len(xs) |-> xs[Len(xs) + 1 - i]]

RECURSIVE Sum(_)
Sum(ns) == IF ns = <<>> THEN 0 ELSE Head(ns) + Sum(Tail(ns))

\* ----------------------------------------------------------------- state
VARIABLES
    collections,     \* rows of table "collections" with the requested id: 0 or 1
    comments,        \* rows of table "comments" of the collection, insertion order
    context,         \* the collection's name / artist_explanation (read-only)
    now,             \* the clock: datetime.now() and the created_at of inserts
    inserts,         \* comments inserted so far
    req,             \* per request: position in summarize, its locals, its response
    last_call,       \* response of the call that just ended, while nothing changed
    p_stage,         \* prompt assembler under test: position
    p_comments,      \*   comments supplied
    p_context,       \*   collection_context supplied
    p_previous,      \*   previous_summary supplied
    p_too_short,     \*   result of _is_comments_too_short
    p_prompt         \*   prompt assembled

store_vars == <<collections, comments, context, now, inserts>>
handler_vars == <<req, last_call>>
prompt_vars == <<p_stage, p_comments, p_context, p_previous, p_too_short, p_prompt>>
vars == <<collections, comments, context, now, inserts, req, last_call,
          p_stage, p_comments, p_context, p_previous, p_too_short, p_prompt>>

Requests == {"r1", "r2"}


\* ------------------------------------------------ ai_service.py: prompts
\* The fixed texts of the prompts.
KONTEKS == "Konteks: "
BERJUDUL == "Karya ini berjudul "
QUOTE == "QUOTE"
ELLIPSIS == <<".", ".", ".">>
GUNAKAN_KONTEKS ==
    "Gunakan konteks ini dengan bijak untuk memperkaya narasi ketika komentar pengunjung terlalu singkat, namun tetap fokus pada respons mereka."
RINGKASAN_SEBELUMNYA == "Ringkasan sebelumnya:"
KOMENTAR_BARU == "Komentar baru:"
BERDASARKAN ==
    "Berdasarkan ringkasan sebelumnya dan komentar baru di atas, buatlah ringkasan yang diperbarui yang menggabungkan informasi lama dan baru. "
IKUTI_KETENTUAN ==
    "Ikuti ketentuan yang sama: naratif, maksimal 150 kata, hangat dan inklusif. "
JIKA_SINGKAT ==
    "Jika komentar baru terlalu singkat, gunakan konteks yang tersedia dengan bijak."

\* A variant of _is_comments_too_short whose length test is "<= 15".
is_comments_too_short_inclusive(cs) ==
    IF cs = <<>> THEN TRUE
    ELSE LET total_length == Sum([i \in 1..Len(cs) |-> Len(strip(cs[i]))])
             short_comments ==
                 Cardinality({i \in 1..Len(cs) : Len(split(strip(cs[i]))) <= 2})
         IN  \/ total_length <= MIN_AVG_LENGTH * Len(cs)
             \/ 10 * short_comments >= 7 * Len(cs)

\* _is_comments_too_short.  avg_length = total_length / len(comments) < 15 is
\* total_length < 15 * len(comments); short_comments >= len(comments) * 0.7 is
\* 10 * short_comments >= 7 * len(comments) (the float product is exact enough
\* for every list length the integers can tell apart).
is_comments_too_short(cs) ==
    IF cs = <<>> THEN TRUE
    ELSE LET total_length == Sum([i \in 1..Len(cs) |-> Len(strip(cs[i]))])
             short_comments ==
                 Cardinality({i \in 1..Len(cs) : Len(split(strip(cs[i]))) <= 2})
         IN  \/ total_length < MIN_AVG_LENGTH * Len(cs)
             \/ 10 * short_comments >= 7 * Len(cs)

\* A variant of the cut that leaves the ellipsis out.
short_explanation_no_ellipsis(explanation) ==
    IF Len(explanation) > MAX_EXPLANATION
    THEN SubSeq(explanation, 1, MAX_EXPLANATION)
    ELSE explanation

\* explanation[:200] + "..." if len(explanation) > 200 else explanation
short_explanation(explanation) ==
    IF Len(explanation) > MAX_EXPLANATION
    THEN SubSeq(explanation, 1, MAX_EXPLANATION) \o ELLIPSIS
    ELSE explanation

\* _build_prompt_with_context: the prompt of a full regeneration.
build_prompt_with_context(cs, collection_context) ==
    LET comments_text == join(cs) IN
    IF is_comments_too_short(cs) /\ ~IsNone(collection_context)
    THEN LET name == strip(Val(collection_context).name)
             explanation == strip(Val(collection_context).artist_explanation)
         IN  IF name # <<>> \/ explanation # <<>>
             THEN comments_text
                  \o (IF name # <<>>
                      THEN <<"NL", "NL", KONTEKS, BERJUDUL, QUOTE>> \o name \o <<QUOTE>>
                      ELSE <<>>)
                  \o (IF explanation # <<>>
                      THEN <<".", " ">> \o short_explanation(explanation)
                      ELSE <<>>)
                  \o <<"NL", "NL", GUNAKAN_KONTEKS>>
             ELSE comments_text
    ELSE comments_text

\* A variant of the incremental prompt that leaves the previous summary out.
build_incremental_prompt_no_previous(previous_summary, new_comments, collection_context) ==
    <<KOMENTAR_BARU, "NL">> \o join(new_comments)
    \o <<"NL", "NL", BERDASARKAN, IKUTI_KETENTUAN, JIKA_SINGKAT>>

\* generate_incremental_summary_async, lines 96-114 and 130-136: the prompt of
\* an incremental regeneration.
build_incremental_prompt(previous_summary, new_comments, collection_context) ==
    LET combined_text ==
            <<RINGKASAN_SEBELUMNYA, "NL">> \o previous_summary
            \o <<"NL", "NL", KOMENTAR_BARU, "NL">> \o join(new_comments)
        context_note ==
            IF is_comments_too_short(new_comments) /\ ~IsNone(collection_context)
            THEN LET name == strip(Val(collection_context).name)
                     explanation == strip(Val(collection_context).artist_explanation)
                 IN  IF name # <<>> \/ explanation # <<>>
                     THEN <<"NL", "NL", KONTEKS>>
                          \o (IF name # <<>>
                              THEN <<BERJUDUL, QUOTE>> \o name \o <<QUOTE>>
                              ELSE <<>>)
                          \o (IF explanation # <<>>
                              THEN <<".", " ">> \o short_explanation(explanation)
                              ELSE <<>>)
                     ELSE <<>>
            ELSE <<>>
    IN  combined_text \o context_note
        \o <<"NL", "NL", BERDASARKAN, IKUTI_KETENTUAN, JIKA_SINGKAT>>

\* -------------------------------------------- ai_service.py: generation
\* What _model.generate_content does with a prompt: it raises, or it answers
\* with a text (possibly empty, blank, or padded with whitespace).
GenResponses ==
    {[raises |-> TRUE, text |-> <<>>],
     [raises |-> FALSE, text |-> <<>>],
     [raises |-> FALSE, text |-> <<" ">>],
     [raises |-> FALSE, text |-> <<"A">>],
     [raises |-> FALSE, text |-> <<" ", "B">>]}

\* Lines 78-83 and 138-143: an exception or a falsy resp.text becomes
\* AIServiceError; otherwise resp.text.strip() is returned.
generation_result(prompt, resp) ==
    IF resp.raises \/ resp.text = <<>>
    THEN [error |-> TRUE, text |-> <<>>, called |-> TRUE, prompt |-> Some(prompt)]
    ELSE [error |-> FALSE, text |-> strip(resp.text), called |-> TRUE,
          prompt |-> Some(prompt)]

\* generate_summary_async
generate_summary_async(cs, collection_context, resp) ==
    IF cs = <<>>
    THEN [error |-> TRUE, text |-> <<>>, called |-> FALSE, prompt |-> None]
    ELSE generation_result(build_prompt_with_context(cs, collection_context), resp)

\* generate_incremental_summary_async
generate_incremental_summary_async(previous_summary, new_comments, cc, resp) ==
    IF new_comments = <<>>
    THEN [error |-> TRUE, text |-> <<>>, called |-> FALSE, prompt |-> None]
    ELSE generation_result(
             build_incremental_prompt(previous_summary, new_comments, cc), resp)


\* ------------------------------------------------------ supabase_client.py
\* _parse_ts: None for a null or empty column; otherwise the instant the ISO
\* text denotes (the fractional digits the store trims are padded back, which
\* leaves the instant as it was).
parse_ts(value) == IF IsNone(value) THEN None ELSE Some(Val(value))

\* fetch_collection_meta: (None, None) when no row has the id.
fetch_collection_meta(rows) ==
    IF rows = <<>> THEN <<None, None>>
    ELSE <<rows[1].ai_summary_text, parse_ts(rows[1].last_summary_generated_at)>>

\* .order("created_at", desc=True): the table is kept in insertion order and
\* created_at never decreases along it, so newest-first is the reverse.
order_desc(rows) == Reverse(rows)

\* .limit(limit)
limit_rows(rows, limit) == SubSeq(rows, 1, IF Len(rows) < limit THEN Len(rows) ELSE limit)

\* fetch_latest_comments: the texts of the `limit` newest rows, empty ones dropped.
fetch_latest_comments(rows, limit) ==
    LET latest == limit_rows(order_desc(rows), limit)
    IN  Truthy([i \in 1..Len(latest) |-> latest[i].comment_text])

\* The rows of a table, each with its place in the table.
Tagged(rows) ==
    [i \in 1..Len(rows) |->
        [comment_text |-> rows[i].comment_text, created_at |-> rows[i].created_at,
         row |-> i]]

\* fetch_latest_comments, by row: the places of the rows whose texts it returns.
rows_fetched(tagged, limit) ==
    LET latest == limit_rows(order_desc(tagged), limit)
    IN  {latest[k].row : k \in {j \in 1..Len(latest) : latest[j].comment_text # <<>>}}

\* fetch_comment_count: the number of comments of the collection.
fetch_comment_count(rows) == Len(rows)

\* The rows created strictly after ts, in table order.
RECURSIVE created_after(_, _)
created_after(rows, ts) ==
    IF rows = <<>> THEN <<>>
    ELSE IF Head(rows).created_at > ts
         THEN <<Head(rows)>> \o created_after(Tail(rows), ts)
         ELSE created_after(Tail(rows), ts)

\* fetch_new_comments_after_timestamp: the texts of the `limit` newest rows
\* created strictly after ts, newest first, empty ones dropped.
fetch_new_comments_after_timestamp(rows, ts, limit) ==
    fetch_latest_comments(created_after(rows, ts), limit)

\* fetch_collection_context: name and artist_explanation of the collection.
fetch_collection_context(cc) == cc

\* What the store does with the update: it applies it, the request raises
\* before it is applied, or no row is updated (resp.data == []).
UpdateOutcomes == {"ok", "error", "no_rows"}

\* A variant of the update that stamps the summary with the epoch instead of
\* the current instant.
update_collection_summary_epoch(rows, summary, t, outcome) ==
    IF outcome = "ok" /\ rows # <<>>
    THEN [rows |-> <<[ai_summary_text |-> Some(summary),
                      last_summary_generated_at |-> Some(0)]>>, raised |-> FALSE]
    ELSE [rows |-> rows, raised |-> TRUE]

\* A variant of the update that sets the timestamp and leaves the text.
update_collection_summary_timestamp_only(rows, summary, t, outcome) ==
    IF outcome = "ok" /\ rows # <<>>
    THEN [rows |-> <<[ai_summary_text |-> rows[1].ai_summary_text,
                      last_summary_generated_at |-> Some(t)]>>, raised |-> FALSE]
    ELSE [rows |-> rows, raised |-> TRUE]

\* update_collection_summary: both columns are set in the one update, the
\* timestamp from datetime.now(); it raises unless a row was updated.
update_collection_summary(rows, summary, t, outcome) ==
    IF outcome = "ok" /\ rows # <<>>
    THEN [rows |-> <<[ai_summary_text |-> Some(summary),
                      last_summary_generated_at |-> Some(t)]>>, raised |-> FALSE]
    ELSE [rows |-> rows, raised |-> TRUE]


\* ------------------------------------------------- routes.py: summarize
\* A request that has not run yet.  Besides the locals of summarize the
\* record keeps the response (status, body), the prompt handed to
\* generate_content, how often generation and update_collection_summary were
\* called, whether the write
\* was accepted (persisted) and with what (written), what the collection's
\* rows were when the request read them (seen), which comment rows it
\* fetched (fetched_rows), whether generation ended in
\* AIServiceError (gen_error), whether no comment was inserted and no other
\* request wrote the summary since the request began (undisturbed), and the
\* outcome of the call that ended immediately before this one began (pred).
NewRequest ==
    [pc |-> "start",
     ai_summary_text |-> None, last_summary_generated_at |-> None,
     comment_count |-> 0, comments |-> <<>>, collection_context |-> None,
     summary |-> <<>>, status |-> 0, body |-> None,
     prompt |-> None, gen_calls |-> 0, update_calls |-> 0, persisted |-> FALSE,
     written |-> None,
     gen_error |-> FALSE, seen |-> <<>>, undisturbed |-> TRUE,
     pred |-> None, fetched_rows |-> {}]

InFlight(q) == q.pc \notin {"start", "done"}

\* return {"summary": ...} / raise HTTPException(status_code=...)
Respond(q, status, body) == [q EXCEPT !.pc = "done", !.status = status, !.body = body]

\* Line 37: the 404 test.
collection_not_found(text, ts) == IsNone(text) /\ IsNone(ts)

\* A variant of the test that takes a blank text for a summary.
has_valid_summary_unstripped(text) == ~IsNone(text) /\ Val(text) # <<>>

\* Line 41: ai_summary_text and ai_summary_text.strip() != ""
has_valid_summary(text) ==
    ~IsNone(text) /\ Val(text) # <<>> /\ strip(Val(text)) # <<>>

\* A variant of the cached answer that trims the stored text.
return_cached_stripped(q) == Respond(q, 200, Some(strip(Val(q.ai_summary_text))))

\* Lines 75 and 84: return {"summary": ai_summary_text}
return_cached(q) == Respond(q, 200, q.ai_summary_text)

\* Lines 48 and 53: return {"summary": ""}
return_empty(q) == Respond(q, 200, Some(<<>>))

\* Lines 36-46 and 71-76: after fetch_collection_meta.
after_fetch_collection_meta(q, meta) ==
    LET q1 == [q EXCEPT !.ai_summary_text = meta[1],
                        !.last_summary_generated_at = meta[2]]
    IN  IF collection_not_found(meta[1], meta[2]) THEN Respond(q1, 404, None)
        ELSE IF ~has_valid_summary(meta[1])
             THEN [q1 EXCEPT !.pc = "fetch_comment_count"]
        ELSE IF IsNone(meta[2]) THEN return_cached(q1)
        ELSE [q1 EXCEPT !.pc = "fetch_new_comments"]

\* A variant that goes on to generation without fetching the comments.
after_fetch_comment_count_skipping_fetch(q, n) ==
    LET q1 == [q EXCEPT !.comment_count = n]
    IN  IF n < MIN_COMMENTS THEN return_empty(q1)
        ELSE [q1 EXCEPT !.pc = "fetch_context_full"]

\* Lines 45-48: after fetch_comment_count.
after_fetch_comment_count(q, n) ==
    LET q1 == [q EXCEPT !.comment_count = n]
    IN  IF n < MIN_COMMENTS THEN return_empty(q1)
        ELSE [q1 EXCEPT !.pc = "fetch_latest_comments"]

\* Lines 51-53: after fetch_latest_comments.
after_fetch_latest_comments(q, cs) ==
    LET q1 == [q EXCEPT !.comments = cs]
    IN  IF Len(cs) < MIN_COMMENTS THEN return_empty(q1)
        ELSE [q1 EXCEPT !.pc = "fetch_context_full"]

\* Lines 78-84: after fetch_new_comments_after_timestamp.
after_fetch_new_comments(q, cs) ==
    LET q1 == [q EXCEPT !.comments = cs]
    IN  IF cs = <<>> THEN return_cached(q1)
        ELSE [q1 EXCEPT !.pc = "fetch_context_incr"]

\* Lines 56 and 88: after fetch_collection_context.
after_fetch_collection_context(q, cc) ==
    [q EXCEPT !.collection_context = cc,
              !.pc = IF q.pc = "fetch_context_full"
                     THEN "generate_summary" ELSE "generate_incremental"]

\* A variant that goes on to the update after a failed generation.
after_generate_ignoring_error(q, g) ==
    [q EXCEPT !.prompt = g.prompt, !.gen_error = g.error,
              !.gen_calls = @ + (IF g.called THEN 1 ELSE 0),
              !.summary = g.text, !.pc = "update_collection_summary"]

\* Lines 58-61 and 90-95: AIServiceError becomes 502; otherwise go on to the
\* update with the generated text.
after_generate(q, g) ==
    LET q1 == [q EXCEPT !.prompt = g.prompt, !.gen_error = g.error,
                        !.gen_calls = @ + (IF g.called THEN 1 ELSE 0)]
    IN  IF g.error THEN Respond(q1, 502, None)
        ELSE [q1 EXCEPT !.summary = g.text, !.pc = "update_collection_summary"]

\* A variant that lets the exception of the update reach the caller.
after_update_surfacing_error(q, u, t) ==
    LET q1 == [q EXCEPT !.update_calls = @ + 1, !.persisted = ~u.raised,
                        !.written = IF u.raised THEN None ELSE Some(<<q.summary, t>>)]
    IN  IF u.raised THEN Respond(q1, 500, None) ELSE Respond(q1, 200, Some(q.summary))

\* Lines 63-70 and 97-104: an exception of the update is logged and dropped;
\* the generated text is returned either way.
after_update_collection_summary(q, u, t) ==
    Respond([q EXCEPT !.update_calls = @ + 1, !.persisted = ~u.raised,
                      !.written = IF u.raised THEN None ELSE Some(<<q.summary, t>>)],
            200, Some(q.summary))

\* ------------------------------------------------------------- actions
OthersQuiet(r) == \A o \in Requests \ {r} : ~InFlight(req[o])

\* What a finished call leaves for the call that follows it at once.
Outcome(q) ==
    [status |-> q.status, body |-> q.body, generated |-> q.gen_calls > 0,
     persisted |-> q.persisted]

\* Request r takes one step to q2 without changing the store.
Step(r, q2) ==
    /\ req' = [req EXCEPT ![r] = q2]
    /\ last_call' =
           IF q2.pc = "done"
           THEN (IF OthersQuiet(r) THEN Some(Outcome(q2)) ELSE None)
           ELSE None

\* The requests are interchangeable: r1 names the one that reads first.
FetchCollectionMeta(r) ==
    /\ req[r].pc = "start"
    /\ r = "r2" => req["r1"].pc # "start"
    /\ LET q == [req[r] EXCEPT
                    !.seen = collections,
                    !.pred = IF OthersQuiet(r) THEN last_call ELSE None]
       IN  Step(r, after_fetch_collection_meta(q, fetch_collection_meta(collections)))
    /\ UNCHANGED <<store_vars, prompt_vars>>

FetchCommentCount(r) ==
    /\ req[r].pc = "fetch_comment_count"
    /\ Step(r, after_fetch_comment_count(req[r], fetch_comment_count(comments)))
    /\ UNCHANGED <<store_vars, prompt_vars>>

FetchLatestComments(r) ==
    /\ req[r].pc = "fetch_latest_comments"
    /\ LET q == [req[r] EXCEPT !.fetched_rows = rows_fetched(Tagged(comments), LIMIT)]
       IN  Step(r, after_fetch_latest_comments(q, fetch_latest_comments(comments, LIMIT)))
    /\ UNCHANGED <<store_vars, prompt_vars>>

FetchNewComments(r) ==
    /\ req[r].pc = "fetch_new_comments"
    /\ LET ts == Val(req[r].last_summary_generated_at)
           q == [req[r] EXCEPT
                    !.fetched_rows = rows_fetched(created_after(Tagged(comments), ts), LIMIT)]
       IN  Step(r, after_fetch_new_comments(q,
                       fetch_new_comments_after_timestamp(comments, ts, LIMIT)))
    /\ UNCHANGED <<store_vars, prompt_vars>>

FetchCollectionContext(r) ==
    /\ req[r].pc \in {"fetch_context_full", "fetch_context_incr"}
    /\ Step(r, after_fetch_collection_context(req[r], fetch_collection_context(context)))
    /\ UNCHANGED <<store_vars, prompt_vars>>

GenerateSummary(r) ==
    /\ req[r].pc = "generate_summary"
    /\ \E resp \in GenResponses :
           Step(r, after_generate(req[r],
                       generate_summary_async(req[r].comments,
                                              req[r].collection_context, resp)))
    /\ UNCHANGED <<store_vars, prompt_vars>>

GenerateIncrementalSummary(r) ==
    /\ req[r].pc = "generate_incremental"
    /\ \E resp \in GenResponses :
           Step(r, after_generate(req[r],
                       generate_incremental_summary_async(
                           Val(req[r].ai_summary_text), req[r].comments,
                           req[r].collection_context, resp)))
    /\ UNCHANGED <<store_vars, prompt_vars>>

\* The write; an accepted write changes the stored summary under every other
\* request in flight.
UpdateCollectionSummary(r) ==
    /\ req[r].pc = "update_collection_summary"
    /\ \E outcome \in UpdateOutcomes :
           LET u == update_collection_summary(collections, req[r].summary, now, outcome)
               q2 == after_update_collection_summary(req[r], u, now)
           IN  /\ collections' = u.rows
               /\ req' = [o \in Requests |->
                            IF o = r THEN q2
                            ELSE IF req[o].pc # "start" /\ ~u.raised
                                 THEN [req[o] EXCEPT !.undisturbed = FALSE]
                                 ELSE req[o]]
               /\ last_call' = IF OthersQuiet(r) THEN Some(Outcome(q2)) ELSE None
    /\ UNCHANGED <<comments, context, now, inserts, prompt_vars>>

\* ---------------------------------------------------------- environment
OK == <<"o", "k">>
LONG == Rep("a", 5) \o <<" ">> \o Rep("b", 5) \o <<" ">> \o Rep("c", 5)
EMPTY == <<>>
Row(text, t) == [comment_text |-> text, created_at |-> t]

\* A visitor comments on the collection, at once or an instant later, while
\* a request is still to be answered.
InsertComment ==
    /\ inserts < MaxInserts
    /\ \E r \in Requests : req[r].pc # "done"
    /\ collections # <<>>
    /\ \E text \in {OK}, t \in {now, now + 1} :
           /\ t <= MaxClock
           /\ now' = t
           /\ comments' = Append(comments, Row(text, t))
    /\ inserts' = inserts + 1
    /\ req' = [o \in Requests |->
                 IF req[o].pc # "start" THEN [req[o] EXCEPT !.undisturbed = FALSE]
                 ELSE req[o]]
    /\ last_call' = None
    /\ UNCHANGED <<collections, context, prompt_vars>>

\* ----------------------------------------------------------------- Init
S_OLD == <<"S", " ">>

Meta(s, t) == [ai_summary_text |-> s, last_summary_generated_at |-> t]

SeedCollections ==
    {<<Meta(None, None)>>, <<Meta(None, Some(1))>>,
     <<Meta(Some(<<>>), None)>>, <<Meta(Some(<<>>), Some(1))>>,
     <<Meta(Some(<<" ">>), Some(1))>>,
     <<Meta(Some(S_OLD), None)>>, <<Meta(Some(S_OLD), Some(1))>>}

\* Comment tables a collection may have when the first request arrives.
SeedComments ==
    {<<>>,
     <<Row(OK, 0), Row(EMPTY, 2)>>,
     <<Row(OK, 0), Row(EMPTY, 1), Row(OK, 2)>>,
     <<Row(OK, 0), Row(OK, 1), Row(OK, 2)>>,
     <<Row(LONG, 0), Row(LONG, 2), Row(LONG, 2)>>}

\* Tables with more rows than one fetch returns: three non-empty comments of
\* which the 50 newest rows hold two, and 51 non-empty comments.
BigSeedComments ==
    {<<Row(OK, 0), Row(OK, 1), Row(OK, 1)>> \o Rep(Row(EMPTY, 2), LIMIT - 2),
     <<Row(OK, 0)>> \o Rep(Row(OK, 2), LIMIT)}

BigSeedCollections ==
    {<<Meta(Some(<<" ">>), Some(1))>>, <<Meta(Some(S_OLD), Some(1))>>}

\* The collection's context; a collection without one is tried with the
\* three-comment table.
SeedContexts == {None, Some([name |-> <<"N">>, artist_explanation |-> <<"e">>])}

PromptOff ==
    /\ p_stage = "off"
    /\ p_comments = <<>>
    /\ p_context = None
    /\ p_previous = <<>>
    /\ p_too_short = FALSE
    /\ p_prompt = <<>>

Init ==
    /\ \/ /\ collections = <<>>
          /\ comments = <<>>
       \/ /\ collections \in SeedCollections
          /\ comments \in SeedComments
       \/ /\ collections \in BigSeedCollections
          /\ comments \in BigSeedComments
    /\ context \in SeedContexts
    /\ IsNone(context) => comments = <<Row(OK, 0), Row(OK, 1), Row(OK, 2)>>
    /\ now = 2
    /\ inserts = 0
    /\ req = [r \in Requests |-> NewRequest]
    /\ last_call = None
    /\ PromptOff

Next ==
    \/ \E r \in Requests : FetchCollectionMeta(r)
    \/ \E r \in Requests : FetchCommentCount(r)
    \/ \E r \in Requests : FetchLatestComments(r)
    \/ \E r \in Requests : FetchNewComments(r)
    \/ \E r \in Requests : FetchCollectionContext(r)
    \/ \E r \in Requests : GenerateSummary(r)
    \/ \E r \in Requests : GenerateIncrementalSummary(r)
    \/ \E r \in Requests : UpdateCollectionSummary(r)
    \/ InsertComment

Spec == Init /\ [][Next]_vars


\* ====================================================== claims: summarize
Done(r) == req[r].pc = "done"

\* r is answered, and since it began no comment was inserted and no other
\* request wrote the summary: `comments` is the table r read.
Clean(r) == Done(r) /\ req[r].undisturbed

\* The collection exists and its summary_text is null, empty or whitespace.
NoUsableSummary(rows) ==
    /\ rows # <<>>
    /\ \/ IsNone(rows[1].ai_summary_text)
       \/ \A i \in 1..Len(Val(rows[1].ai_summary_text)) :
              Val(rows[1].ai_summary_text)[i] \in {" ", "NL"}

ValidSummary(rows) == rows # <<>> /\ ~NoUsableSummary(rows)

\* Indices of the `LIMIT` newest rows among the rows idx of the comment table.
Newest(idx) == {i \in idx : Cardinality({j \in idx : j > i}) < LIMIT}

NonEmptyRows(idx) == {i \in idx : comments[i].comment_text # <<>>}

AllRows == DOMAIN comments

NewerRows(ts) == {i \in DOMAIN comments : comments[i].created_at > ts}

\* p occurs in s as a contiguous piece.
Contains(s, p) ==
    \E i \in 0..(Len(s) - Len(p)) : SubSeq(s, i + 1, i + Len(p)) = p


\* The precondition of C1 for request r: the collection existed without a
\* usable summary, with fewer than 3 comments or with fewer than 3 non-empty
\* ones among the 50 newest.
InsufficientCase(r) ==
    /\ Clean(r)
    /\ NoUsableSummary(req[r].seen)
    /\ \/ Cardinality(AllRows) < MIN_COMMENTS
       \/ Cardinality(NonEmptyRows(Newest(AllRows))) < MIN_COMMENTS

\* C1: an existing collection without a usable summary and with too few
\* comments (fewer than 3 in all, or fewer than 3 non-empty among the 50
\* newest) is answered {"summary": ""}, with no generation call and no write.
C1_InsufficientData ==
    \A r \in Requests :
        InsufficientCase(r) =>
            /\ req[r].status = 200
            /\ req[r].body = Some(<<>>)
            /\ req[r].gen_calls = 0
            /\ req[r].update_calls = 0
            /\ collections = req[r].seen

\* C5: the answer is 404 exactly when the collection is unknown; then no
\* comment is fetched, nothing is generated and nothing is written; an
\* existing collection is never answered 404.
C5_NotFoundIffUnknown ==
    \A r \in Requests :
        Done(r) =>
            /\ (req[r].status = 404) <=> (req[r].seen = <<>>)
            /\ req[r].status = 404 =>
                   /\ req[r].comments = <<>>
                   /\ req[r].gen_calls = 0
                   /\ req[r].update_calls = 0

\* C5, the part the code keeps: 404 exactly when both fetched values are
\* absent, with nothing fetched, generated or written.
C5_NotFoundIffBothAbsent ==
    \A r \in Requests :
        Done(r) =>
            /\ (req[r].status = 404) <=>
                   (IsNone(req[r].ai_summary_text)
                    /\ IsNone(req[r].last_summary_generated_at))
            /\ req[r].status = 404 =>
                   /\ req[r].comments = <<>>
                   /\ req[r].gen_calls = 0
                   /\ req[r].update_calls = 0

\* C1 for the collections the 404 test lets through.
C1_UnlessNotFound ==
    \A r \in Requests :
        InsufficientCase(r) /\ req[r].status # 404 =>
            /\ req[r].status = 200
            /\ req[r].body = Some(<<>>)
            /\ req[r].gen_calls = 0
            /\ req[r].update_calls = 0
            /\ collections = req[r].seen


\* The texts of the rows idx, newest first.
RECURSIVE NewestFirst(_)
NewestFirst(idx) ==
    IF idx = {} THEN <<>>
    ELSE LET m == CHOOSE i \in idx : \A j \in idx : j <= i
         IN  <<comments[m].comment_text>> \o NewestFirst(idx \ {m})

StartsWith(s, p) == Len(p) <= Len(s) /\ SubSeq(s, 1, Len(p)) = p

\* What a request that generated owes its caller and the store: the text is
\* returned, the update is called once, and an accepted write leaves exactly
\* (text, current instant) in the row.
GeneratedAndStored(r) ==
    /\ req[r].gen_calls = 1
    /\ req[r].status \in {200, 502}
    /\ req[r].status = 502 <=> req[r].gen_error
    /\ ~req[r].gen_error =>
           /\ req[r].body = Some(req[r].summary)
           /\ req[r].update_calls = 1
           /\ req[r].persisted =>
                  collections = <<Meta(Some(req[r].summary), Some(now))>>

\* C2: with a valid summary, a timestamp and no comment created strictly
\* after it, the stored text is returned verbatim; nothing is generated and
\* nothing is written.
C2_ReturnCached ==
    \A r \in Requests :
        (/\ Clean(r)
         /\ ValidSummary(req[r].seen)
         /\ ~IsNone(req[r].seen[1].last_summary_generated_at)
         /\ NewerRows(Val(req[r].seen[1].last_summary_generated_at)) = {})
        => /\ req[r].status = 200
           /\ req[r].body = req[r].seen[1].ai_summary_text
           /\ req[r].gen_calls = 0
           /\ req[r].update_calls = 0
           /\ collections = req[r].seen

C2_Witness ==
    \E r \in Requests :
        /\ Clean(r)
        /\ ValidSummary(req[r].seen)
        /\ ~IsNone(req[r].seen[1].last_summary_generated_at)
        /\ NewerRows(Val(req[r].seen[1].last_summary_generated_at)) = {}
        /\ comments # <<>>
        /\ req[r].status = 200

\* The precondition of C3: no usable summary and at least 3 non-empty
\* comments among the 50 newest.
FullCase(r) ==
    /\ Clean(r)
    /\ NoUsableSummary(req[r].seen)
    /\ Cardinality(NonEmptyRows(Newest(AllRows))) >= MIN_COMMENTS

FullRegeneration(r) ==
    /\ req[r].comments = NewestFirst(NonEmptyRows(Newest(AllRows)))
    /\ ~IsNone(req[r].prompt)
    /\ StartsWith(Val(req[r].prompt), join(req[r].comments))
    /\ GeneratedAndStored(r)

\* C3: without a usable summary and with at least 3 non-empty comments among
\* the 50 newest, generation is called once with the newline-joined fetched
\* texts (plus the optional context note); the text generated is returned
\* and stored with the current instant.
C3_FullRegeneration ==
    \A r \in Requests : FullCase(r) => FullRegeneration(r)

\* C3 for the collections the 404 test lets through.
C3_UnlessNotFound ==
    \A r \in Requests : FullCase(r) /\ req[r].status # 404 => FullRegeneration(r)

\* The previous summary as the incremental prompt shows it.
PreviousBlock(text) == <<RINGKASAN_SEBELUMNYA, "NL">> \o text \o <<"NL", "NL">>

NewBlock(texts) == <<KOMENTAR_BARU, "NL">> \o join(texts)

IncrementalRegeneration(r, ts) ==
    /\ req[r].comments = NewestFirst(NonEmptyRows(Newest(NewerRows(ts))))
    /\ Len(req[r].comments) <= LIMIT
    /\ ~IsNone(req[r].prompt)
    /\ Contains(Val(req[r].prompt), PreviousBlock(Val(req[r].seen[1].ai_summary_text)))
    /\ Contains(Val(req[r].prompt), NewBlock(req[r].comments))
    /\ GeneratedAndStored(r)

C6_GenerationFailed ==
    \A r \in Requests :
        Done(r) /\ req[r].gen_error =>
            /\ req[r].status = 502
            /\ req[r].update_calls = 0
            /\ ~req[r].persisted
            /\ req[r].undisturbed => collections = req[r].seen

C6_Witness ==
    \E r \in Requests :
        /\ Done(r) /\ req[r].gen_error /\ req[r].gen_calls = 1
        /\ ValidSummary(req[r].seen)
        /\ req[r].undisturbed

\* C7: when generation succeeded and the write failed (the update raised, or
\* updated no row), the caller still gets 200 with the text generated, the
\* write was tried once, and the stored summary and timestamp stay as they
\* were.
C7_PersistFailureSwallowed ==
    \A r \in Requests :
        Done(r) /\ req[r].gen_calls > 0 /\ ~req[r].gen_error /\ ~req[r].persisted =>
            /\ req[r].status = 200
            /\ req[r].body = Some(req[r].summary)
            /\ req[r].update_calls = 1
            /\ req[r].undisturbed => collections = req[r].seen

C7_Witness ==
    \E r \in Requests :
        /\ Done(r) /\ req[r].update_calls = 1 /\ ~req[r].persisted
        /\ req[r].summary # <<>>
        /\ req[r].undisturbed

\* r is the second of two calls made in immediate succession, with no
\* comment created between them.
SecondCall(r) == Clean(r) /\ ~IsNone(req[r].pred)

SameAnswerNoWork(r) ==
    /\ req[r].status = Val(req[r].pred).status
    /\ req[r].body = Val(req[r].pred).body
    /\ req[r].gen_calls = 0
    /\ req[r].update_calls = 0

FirstSettled(o) ==
    \/ o.status = 404
    \/ o.status = 200 /\ ~o.generated
    \/ o.status = 200 /\ o.generated /\ o.persisted /\ o.body # Some(<<>>)

NotFound(q) ==
    q.status = 404 /\ q.comments = <<>> /\ q.gen_calls = 0 /\ q.update_calls = 0

InsufficientData(q) ==
    /\ q.status = 200 /\ q.body = Some(<<>>)
    /\ ~has_valid_summary(q.ai_summary_text)
    /\ q.gen_calls = 0 /\ q.update_calls = 0

ReturnCached(q) ==
    /\ q.status = 200 /\ q.body = q.ai_summary_text
    /\ has_valid_summary(q.ai_summary_text)
    /\ q.gen_calls = 0 /\ q.update_calls = 0

GenerationFailed(q) ==
    q.status = 502 /\ q.gen_calls = 1 /\ q.gen_error /\ q.update_calls = 0

\* The text generated is returned after the one update the request makes.
Persisted(q) ==
    /\ q.status = 200 /\ q.body = Some(q.summary)
    /\ q.gen_calls = 1 /\ ~q.gen_error /\ q.update_calls = 1

ExactlyOneTerminal ==
    \A r \in Requests :
        Done(r) =>
            LET q == req[r]
                ends == <<NotFound(q), InsufficientData(q), ReturnCached(q),
                          GenerationFailed(q), Persisted(q)>>
            IN  Cardinality({k \in 1..5 : ends[k]}) = 1

Generating(q) == q.pc \in {"generate_summary", "generate_incremental"}

\* One step of request r keeps the order meta, comments, generate, persist.
StepOrder(r) ==
    LET q == req[r]
        q2 == req'[r]
    IN  /\ q.pc = "start" /\ q2.pc # "start" =>
               q2.pc \in {"done", "fetch_comment_count", "fetch_new_comments"}
        /\ q2.comments # q.comments =>
               /\ q.pc \in {"fetch_latest_comments", "fetch_new_comments"}
               /\ q.gen_calls = 0
        /\ Generating(q2) => q2.comments # <<>> /\ q2.gen_calls = 0
        /\ q2.gen_calls # q.gen_calls =>
               /\ Generating(q)
               /\ q.comments # <<>>
               /\ q.gen_calls = 0 /\ q2.gen_calls = 1
               /\ q.update_calls = 0 /\ q2.update_calls = 0
        /\ q2.update_calls # q.update_calls =>
               /\ q.pc = "update_collection_summary"
               /\ q.gen_calls = 1 /\ ~q.gen_error /\ q2.gen_calls = 1
               /\ q.update_calls = 0 /\ q2.update_calls = 1
               /\ q2.pc = "done"

\* The stored row changes only in the update step of a request whose
\* generation succeeded.
WriteAfterGeneration ==
    collections' # collections =>
        \E r \in Requests :
            /\ req'[r].update_calls = req[r].update_calls + 1
            /\ req[r].gen_calls = 1 /\ ~req[r].gen_error
            /\ req[r].comments # <<>>

\* C11: a request ends in exactly one of NotFound, InsufficientData,
\* ReturnCached, Persisted and GenerationFailed, and its steps keep the
\* order fetch meta, fetch comments, generate, persist: the store is written
\* only after a successful generation call of the same request, and
\* generation is called only after the comments were fetched.
C11_StateMachine ==
    []ExactlyOneTerminal /\ [][(\A r \in Requests : StepOrder(r)) /\ WriteAfterGeneration]_vars

C11_Witness ==
    /\ Done("r1") /\ Persisted(req["r1"]) /\ req["r1"].persisted
    /\ Done("r2") /\ GenerationFailed(req["r2"])
    /\ collections # req["r1"].seen


\* The store accepts the write of request r in this step.
WriteAccepted(r) == req'[r].persisted /\ ~req[r].persisted

\* The row as one update of request q wrote it.
RowWritten(q) == <<Meta(Some(Val(q.written)[1]), Some(Val(q.written)[2]))>>

\* Once a write was accepted the stored pair is the pair of one update.
StoredPairFromOneUpdate ==
    (\E r \in Requests : req[r].persisted) =>
        \E r \in Requests : req[r].persisted /\ collections = RowWritten(req[r])

\* An accepted write replaces the stored pair by its own text and instant,
\* whatever another request wrote before; nothing else changes the row.
LastWriteWins ==
    /\ \A r \in Requests :
           WriteAccepted(r) =>
               /\ req'[r].written = Some(<<req[r].summary, now>>)
               /\ collections' = RowWritten(req'[r])
               /\ collections'[1].ai_summary_text = Some(req'[r].body[1])
    /\ collections' # collections =>
           /\ \E r \in Requests : WriteAccepted(r)
           /\ Len(collections') = Len(collections)

\* C12: requests are not coordinated: two requests that read the same stale
\* row may both generate and both write.  Whatever the interleaving, the
\* stored (text, timestamp) pair is the pair of the latest accepted update:
\* each accepted update sets both columns, and nothing else changes them.
C12_LastWriteWins ==
    []StoredPairFromOneUpdate /\ [][LastWriteWins]_vars

\* Both requests read the same stale row, both generated, both writes were
\* accepted, and the request that read first wrote last.
C12_Witness ==
    /\ Done("r1") /\ Done("r2")
    /\ req["r1"].seen = req["r2"].seen
    /\ req["r1"].persisted /\ req["r2"].persisted
    /\ req["r1"].written # req["r2"].written
    /\ collections = RowWritten(req["r1"])
    /\ ValidSummary(req["r1"].seen)


\* The row r read has a valid text and no timestamp.
TextWithoutTimestamp(rows) ==
    ValidSummary(rows) /\ IsNone(rows[1].last_summary_generated_at)

\* The row r read has a timestamp and a null, empty or blank text.
TimestampWithoutText(rows) ==
    NoUsableSummary(rows) /\ ~IsNone(rows[1].last_summary_generated_at)

\* A request that reads a valid text without timestamp is answered in that
\* very step with the stored text: no further fetch, no generation, no write.
CachedAtOnce(r) ==
    req[r].pc = "start" /\ req'[r].pc # "start" /\ TextWithoutTimestamp(collections) =>
        /\ req'[r].pc = "done"
        /\ ReturnCached(req'[r])
        /\ req'[r].body = collections[1].ai_summary_text
        /\ req'[r].comments = <<>>
        /\ collections' = collections

\* A request that read a timestamp without usable text stays on the
\* no-summary path.
OnNoSummaryPath(r) ==
    LET q == req[r]
    IN  q.pc # "start" /\ TimestampWithoutText(q.seen) =>
            /\ q.pc \in {"fetch_comment_count", "fetch_latest_comments",
                         "fetch_context_full", "generate_summary",
                         "update_collection_summary", "done"}
            /\ ~IsNone(q.prompt) =>
                   /\ StartsWith(Val(q.prompt), join(q.comments))
                   /\ ~Contains(Val(q.prompt), <<RINGKASAN_SEBELUMNYA>>)
            /\ q.pc = "done" =>
                   /\ ~NotFound(q) /\ ~ReturnCached(q)
                   /\ \/ InsufficientData(q)
                      \/ q.gen_calls = 1 /\ Len(q.comments) >= MIN_COMMENTS

\* C13: inconsistent stored pairs are tolerated.  A valid text without
\* timestamp is returned as stored, with no fetch of new comments, no
\* generation and no write.  A timestamp with a null, empty or blank text
\* counts as no summary: the request ends in InsufficientData or regenerates
\* in full, and never returns the cached text or regenerates incrementally.
C13_InconsistentPairs ==
    [](\A r \in Requests : OnNoSummaryPath(r)) /\ [][\A r \in Requests : CachedAtOnce(r)]_vars

\* A blank (not null) text with a timestamp and comments newer than it: the
\* request regenerated in full and its write was accepted.
C13_Witness ==
    \E r \in Requests :
        /\ Done(r)
        /\ TimestampWithoutText(req[r].seen)
        /\ ~IsNone(req[r].seen[1].ai_summary_text)
        /\ Val(req[r].seen[1].ai_summary_text) # <<>>
        /\ NewerRows(Val(req[r].seen[1].last_summary_generated_at)) # {}
        /\ Persisted(req[r]) /\ req[r].persisted


\* The comment rows that were in the prompt of a successful generation.
Folded ==
    UNION {req[r].fetched_rows :
               r \in {o \in Requests : req[o].gen_calls = 1 /\ ~req[o].gen_error}}

\* The comment rows the summary stored at the outset stands for: those not
\* newer than its timestamp, when it was a valid summary with a timestamp.
\* (r1 is the request that reads first, so it read the row of the outset.)
FoldedBefore ==
    LET rows == req["r1"].seen
    IN  IF ValidSummary(rows) /\ ~IsNone(rows[1].last_summary_generated_at)
        THEN AllRows \ NewerRows(Val(rows[1].last_summary_generated_at))
        ELSE {}

\* The non-empty comments not newer than the stored timestamp.
Covered ==
    NonEmptyRows(AllRows \ NewerRows(Val(collections[1].last_summary_generated_at)))

\* A request has stored a summary and the stored summary is valid.
SummaryStored ==
    /\ \E r \in Requests : req[r].persisted
    /\ ValidSummary(collections)

\* C14: no comment is skipped for good: once a request has stored a valid
\* summary with timestamp T, every non-empty comment with created_at <= T
\* was in the prompt of some successful generation (or was not newer than
\* the timestamp of the valid summary stored at the outset).
C14_NoCommentSkipped ==
    SummaryStored => Covered \subseteq (Folded \cup FoldedBefore)

\* C14 where the code keeps it: no comment is inserted while requests run
\* and the table holds no more rows than one fetch returns.
C14_UnlessRacedOrCapped ==
    (/\ SummaryStored
     /\ inserts = 0
     /\ Len(comments) <= LIMIT)
    => Covered \subseteq (Folded \cup FoldedBefore)


\* s is empty or holds whitespace only.
Blank(s) == \A i \in 1..Len(s) : s[i] \in {" ", "NL"}

\* C15: every text summarize stores, and returns after a generation, is
\* non-empty after trimming, so an accepted write leaves a valid summary; an
\* empty or blank generation result ends in GenerationFailed.
C15_StoredTextNonBlank ==
    \A r \in Requests :
        /\ req[r].gen_calls = 1 /\ ~req[r].gen_error => ~Blank(req[r].summary)
        /\ req[r].persisted =>
               /\ ~Blank(Val(req[r].written)[1])
               /\ collections = RowWritten(req[r]) => ValidSummary(collections)

\* C15 where the code keeps it: the text stored and returned carries no
\* whitespace around it, and a stored text that is not empty is a valid
\* summary.
C15_StoredTextTrimmed ==
    \A r \in Requests :
        req[r].persisted =>
            /\ LET text == Val(req[r].written)[1]
               IN  text # <<>> => ~Blank(<<text[1]>>) /\ ~Blank(<<text[Len(text)]>>)
            /\ req[r].body = Some(Val(req[r].written)[1])
            /\ (collections = RowWritten(req[r]) /\ Val(req[r].written)[1] # <<>>)
                   => ValidSummary(collections)


\* ================================================ the prompt assembler alone
\* _is_comments_too_short, _build_prompt_with_context and the prompt of
\* generate_incremental_summary_async applied to supplied inputs.
W14 == Rep("a", 5) \o <<" ">> \o Rep("b", 4) \o <<" ">> \o Rep("c", 3)
W15 == Rep("a", 5) \o <<" ">> \o Rep("b", 5) \o <<" ">> \o Rep("c", 3)
PAD14 == <<" ">> \o W14 \o <<" ">>
TWO31 == Rep("a", 15) \o <<" ">> \o Rep("b", 15)
FINE == <<"f", "i", "n", "e">>

PromptTexts == {OK, W14, W15, PAD14, TWO31, LONG}

PromptComments ==
    {<<>>, <<OK, FINE>>, <<TWO31, TWO31, LONG>>,
     Rep(TWO31, 7) \o Rep(LONG, 3), Rep(TWO31, 6) \o Rep(LONG, 4)}
    \cup {<<a>> : a \in PromptTexts}
    \cup {<<a, b>> : a \in PromptTexts, b \in PromptTexts}

Ctx(name, explanation) == Some([name |-> name, artist_explanation |-> explanation])

PromptContexts ==
    {None,
     Ctx(<<>>, <<>>), Ctx(<<" ">>, <<" ">>),
     Ctx(<<"N">>, <<>>), Ctx(<<>>, Rep("x", MAX_EXPLANATION)),
     Ctx(<<"N">>, Rep("x", MAX_EXPLANATION + 1)),
     Ctx(<<" ", "N", " ">>, <<" ">> \o Rep("x", 250) \o <<" ">>),
     Ctx(<<"N">>, <<"e">>)}

StoreOff ==
    /\ collections = <<>>
    /\ comments = <<>>
    /\ context = None
    /\ now = 0
    /\ inserts = 0
    /\ req = [r \in Requests |-> NewRequest]
    /\ last_call = None

PromptInit ==
    /\ StoreOff
    /\ p_stage = "input"
    /\ p_comments \in PromptComments
    /\ p_context \in PromptContexts
    /\ p_previous = S_OLD
    /\ p_too_short = FALSE
    /\ p_prompt = <<>>

IsCommentsTooShort ==
    /\ p_stage = "input"
    /\ p_too_short' = is_comments_too_short(p_comments)
    /\ p_stage' = "checked"
    /\ UNCHANGED <<p_comments, p_context, p_previous, p_prompt, store_vars, handler_vars>>

BuildPromptWithContext ==
    /\ p_stage = "checked"
    /\ p_prompt' = build_prompt_with_context(p_comments, p_context)
    /\ p_stage' = "full"
    /\ UNCHANGED <<p_comments, p_context, p_previous, p_too_short, store_vars, handler_vars>>

BuildIncrementalPrompt ==
    /\ p_stage = "checked"
    /\ p_comments # <<>>
    /\ p_prompt' = build_incremental_prompt(p_previous, p_comments, p_context)
    /\ p_stage' = "incremental"
    /\ UNCHANGED <<p_comments, p_context, p_previous, p_too_short, store_vars, handler_vars>>

PromptNext ==
    \/ IsCommentsTooShort
    \/ BuildPromptWithContext
    \/ BuildIncrementalPrompt

PromptSpec == PromptInit /\ [][PromptNext]_vars

\* ------------------------------------------------------ claims: prompts
\* The characters of s that are not whitespace.
Solid(s) == {i \in 1..Len(s) : s[i] \notin {" ", "NL"}}

\* s without the whitespace around it.
Trimmed(s) ==
    IF Solid(s) = {} THEN <<>>
    ELSE LET first == CHOOSE i \in Solid(s) : \A j \in Solid(s) : i <= j
             last == CHOOSE i \in Solid(s) : \A j \in Solid(s) : j <= i
         IN  [k \in 1..(last - first + 1) |-> s[first + k - 1]]

\* The number of whitespace-separated tokens of s: the places where one begins.
Tokens(s) == Cardinality({i \in Solid(s) : i = 1 \/ (i - 1) \notin Solid(s)})

TotalTrimmed(cs) == Sum([i \in 1..Len(cs) |-> Len(Trimmed(cs[i]))])

\* Too short: no comment, a mean trimmed length below 15, or at least 70% of
\* the comments with two tokens or fewer.
TooShort(cs) ==
    \/ cs = <<>>
    \/ TotalTrimmed(cs) < 15 * Len(cs)
    \/ 100 * Cardinality({i \in 1..Len(cs) : Tokens(cs[i]) <= 2}) >= 70 * Len(cs)

HasContext(cc) ==
    /\ ~IsNone(cc)
    /\ \/ Trimmed(Val(cc).name) # <<>>
       \/ Trimmed(Val(cc).artist_explanation) # <<>>

\* An explanation as the note shows it: cut to its first 200 characters and
\* the ellipsis when longer, whole otherwise.
Shown(e) ==
    IF Len(e) > 200 THEN [i \in 1..200 |-> e[i]] \o <<".", ".", ".">> ELSE e

\* What precedes and what follows the place of the note in each prompt.
BeforeNote ==
    IF p_stage = "full" THEN join(p_comments)
    ELSE PreviousBlock(p_previous) \o NewBlock(p_comments)

AfterNote ==
    IF p_stage = "full" THEN <<>>
    ELSE <<"NL", "NL", BERDASARKAN, IKUTI_KETENTUAN, JIKA_SINGKAT>>

EndsWith(s, p) == Len(p) <= Len(s) /\ SubSeq(s, Len(s) - Len(p) + 1, Len(s)) = p

\* The prompt is BeforeNote, a note, AfterNote; the note is what lies between.
Framed ==
    /\ Len(BeforeNote) + Len(AfterNote) <= Len(p_prompt)
    /\ StartsWith(p_prompt, BeforeNote)
    /\ EndsWith(p_prompt, AfterNote)

Note == SubSeq(p_prompt, Len(BeforeNote) + 1, Len(p_prompt) - Len(AfterNote))

\* The note names the work and shows its explanation, cut at 200 characters.
NoteShowsContext ==
    LET name == Trimmed(Val(p_context).name)
        e == Trimmed(Val(p_context).artist_explanation)
    IN  /\ name # <<>> => Contains(Note, <<QUOTE>> \o name \o <<QUOTE>>)
        /\ e # <<>> =>
               /\ Contains(Note, <<".", " ">> \o Shown(e))
               /\ Len(e) > 200 =>
                      /\ ~Contains(Note, [i \in 1..201 |-> e[i]])
                      /\ Contains(Note, <<e[200], ".", ".", ".">>)
               /\ Len(e) <= 200 => ~Contains(Note, e \o <<".", ".", ".">>)

Assembled == p_stage \in {"full", "incremental"}

NoteWanted == TooShort(p_comments) /\ HasContext(p_context)

\* C10 as stated: in the full and in the incremental prompt alike a note is
\* appended exactly when the comments are too short and the context is
\* non-empty; it shows name and explanation (cut at 200 characters plus
\* ellipsis) and is followed by the instruction to use the context sparingly
\* while keeping the focus on the visitors' responses.
C10_NoteWithInstruction ==
    Assembled =>
        /\ Framed
        /\ NoteWanted <=> Note # <<>>
        /\ NoteWanted =>
               /\ NoteShowsContext
               /\ EndsWith(Note, <<"NL", "NL", GUNAKAN_KONTEKS>>)

\* C10 (amended): the note is appended exactly when the comments are too
\* short and the context is non-empty, and shows name and explanation (cut
\* at 200 characters plus ellipsis, lengths taken after trimming); only the
\* full prompt follows it with the instruction to use the context sparingly
\* while keeping the focus on the visitors' responses.  The incremental
\* prompt never carries that instruction: with or without a note it ends
\* with the merge instruction, whose last sentence asks to use the available
\* context wisely.
C10_Note ==
    Assembled =>
        /\ Framed
        /\ NoteWanted <=> Note # <<>>
        /\ NoteWanted => NoteShowsContext
        /\ p_stage = "full" =>
               (NoteWanted => EndsWith(Note, <<"NL", "NL", GUNAKAN_KONTEKS>>))
        /\ p_stage = "incremental" =>
               /\ ~Contains(p_prompt, <<GUNAKAN_KONTEKS>>)
               /\ EndsWith(p_prompt, <<JIKA_SINGKAT>>)

C10_Witness ==
    /\ p_stage = "incremental"
    /\ NoteWanted
    /\ Len(Trimmed(Val(p_context).artist_explanation)) = 250
    /\ Contains(p_prompt, Rep("x", 200) \o <<".", ".", ".">>)

====
